---- MODULE Spec2Model ----
(***************************************************************************)
(* Heap analyzer dialog (plugins/HeapAnalyzer/DialogHeap.cpp): discovery   *)
(* of the heap bounds (do_find), the chunk walk (collect_blocks), the      *)
(* pointer detection pass (detect_pointers / process_potential_pointer)    *)
(* and the reachability graph (on_btnGraph_clicked).                       *)
(*                                                                         *)
(* The debuggee's memory is a snapshot that is sampled lazily: a word gets *)
(* its value (or the fact that it cannot be read) the first time the       *)
(* program reads it and keeps it for the rest of the scan.  The model is   *)
(* of the 32-bit build: pointers, ulong and unsigned int are 4 bytes wide; *)
(* the address width is scaled down to AddrBits bits so that address       *)
(* arithmetic wraps inside the model.                                      *)
(***************************************************************************)
EXTENDS Integers, Sequences, FiniteSets, TLC

\* ------------------------------------------------------------- bounds
AddrBits == 6
\* number of offsets the start heuristic tries (0x1000 / pointer size, scaled)
HeurSteps == 3
\* results kept by the model; the walk of a well-formed heap stays below it,
\* and a walk that wraps around has room to emit one address twice and end
MaxResults == 6
\* node cap of the graph (3000 in the source, scaled)
MaxGraphNodes == 2

\* ---------------------------------------------------- program constants
PREV_INUSE == 1
IS_MMAPPED == 2
NON_MAIN_ARENA == 4
SIZE_BITS == PREV_INUSE + IS_MMAPPED + NON_MAIN_ARENA
PtrSize == 4
UIntSize == 4
\* edb::v1::debugger_core->page_size(), scaled to the model's words
PageSize == 16

AddrSpace == 2^AddrBits
Mod(a) == a % AddrSpace
Sub(a, b) == (a + AddrSpace - (b % AddrSpace)) % AddrSpace
WordAddrs == {a \in 0..(AddrSpace - 1) : a % PtrSize = 0}

\* a word of the snapshot nobody has read yet / a word that cannot be read
Unknown == 0 - 1
Fault == 0 - 2
\* a local buffer that was never written
Uninit == 0 - 1

\* ------------------------------------------------- malloc_chunk helpers
\* a mask that clears two flag bits only
chunk_size_two_bits(size) == size - (size % (PREV_INUSE + IS_MMAPPED + 1))
chunk_size(size) == size - (size % (SIZE_BITS + 1))
prev_inuse(size) == (size % 2) = PREV_INUSE
next_chunk(p, size) == Mod(p + chunk_size(size))
block_start(p) == Mod(p + 2 * PtrSize)

\* ------------------------------------------------------ the environment
\* A scan runs against one of three families of debuggee, so that the sizes
\* of the families add up instead of multiplying:
\*   bounds    every outcome of the symbol lookups, the heuristic, the reads
\*             of the bounds and the region table, over a well-formed heap;
\*   headers   any header words (flag bits, zero and wrapping sizes, words
\*             that cannot be read) between fixed bounds;
\*   payloads  any payload contents and payload words over well-formed headers.
Envs == {"bounds", "headers", "payloads"}
\* address of <libc>::__curbrk and of <ld>::__curbrk; 0: symbol not found
LibcSyms(fam) == IF fam = "bounds" THEN {0, 60} ELSE {0}
LdSyms(fam) == IF fam = "bounds" THEN {0, 48} ELSE {0}
\* values the words holding the heap bounds may have
BoundWords == {0, 16, 32, Fault}
\* values of the word the start heuristic tests
TestWords(fam) == IF fam = "bounds" THEN {PageSize, 0, Fault} ELSE {0}
\* the region table of the process
Region(n, s, e) == [name |-> n, start |-> s, end |-> e]
RegionTables(fam) ==
    IF fam = "bounds"
    THEN { <<>>,
           <<Region("[heap]", 8, 32)>>,
           <<Region("[stack]", 40, 48), Region("[heap]", 8, 32), Region("[heap]", 16, 24)>> }
    ELSE { <<Region("[heap]", 8, 32)>> }
\* values of a chunk header's size word
SizeWords(fam) ==
    IF fam = "bounds" THEN {16, 25}
    ELSE IF fam = "headers" THEN {0, 9, 13, 16, 24, AddrSpace - 8, Fault}
    ELSE {9, 16, 26}
\* what an uninitialised buffer may hold
GarbageWords == {8, 17}
\* the payloads of a snapshot: which pattern its payload words follow and
\* which pattern its payload contents follow
Image(w, c) == [words |-> w, content |-> c]
Images(fam) ==
    IF fam = "payloads" THEN { Image(w, c) : w \in 0..2, c \in 0..2 }
    ELSE IF fam = "headers" THEN { Image(0, 0), Image(1, 0) }
    ELSE { Image(0, 0) }

VARIABLES
    pc,                  \* position of the dialog: idle, walk, detect, map, graph
    results,             \* model_->results()
    start_address,       \* bounds handed to collect_blocks
    end_address,
    currentChunkAddress,
    currentChunk,        \* size field of the local currentChunk
    nextChunk,           \* size field of the local nextChunk
    mem,                 \* the sampled snapshot of the debuggee's memory
    targets,             \* the hash built by detect_pointers
    pending,             \* results blockingMap has not processed yet
    find,                \* what the last do_find looked up and decided
    env,                 \* the family of debuggee of the last scan
    image,               \* the payloads of the snapshot
    walk,                \* what the last iteration of the walk read and why it stopped
    graph                \* outcome of the last on_btnGraph_clicked

vars == <<pc, results, start_address, end_address, currentChunkAddress,
          currentChunk, nextChunk, mem, targets, pending, find, env, image,
          walk, graph>>

\* the heuristic did not run
NotRun == 0 - 1
NoFind == [status |-> "none", libc |-> 0, ld |-> 0, heur |-> NotRun, start |-> 0, end |-> 0]
NoWalk == [reads |-> <<>>, stop |-> ""]
NoGraph == [status |-> "none", nodes |-> {}, edges |-> <<>>, seeds |-> {}]
EmptyMem == [a \in WordAddrs |-> Unknown]

Init ==
    /\ pc = "idle"
    /\ results = <<>>
    /\ start_address = 0
    /\ end_address = 0
    /\ currentChunkAddress = 0
    /\ currentChunk = Uninit
    /\ nextChunk = Uninit
    /\ mem = EmptyMem
    /\ targets = <<>>
    /\ pending = {}
    /\ find = NoFind
    /\ env = "bounds"
    /\ image = Image(0, 0)
    /\ walk = NoWalk
    /\ graph = NoGraph

\* ------------------------------------------------------- memory reads
\* process->read_bytes(a, &buf, ...) of one word: the outcomes <<ok, value, mem'>>.
\* A word that was never sampled takes any value of cands.
ReadWord(m, a, cands) ==
    { <<v # Fault, v, [m EXCEPT ![a] = v]>> :
        v \in (IF m[a] = Unknown THEN cands ELSE {m[a]}) }

\* the buffer after a read whose result is ignored: the value read, or what
\* the buffer held before (anything, if it was never written)
AfterRead(ok, v, buf) ==
    IF ok THEN {v} ELSE IF buf = Uninit THEN GarbageWords ELSE {buf}

\* ------------------------------------------------------------ do_find
\* returns the address of the tested word
find_heap_start_below(m, endA, offset, tests) ==
    LET start == Sub(endA, offset)
        heap_symbol == Sub(start, 3 * PtrSize + UIntSize)
    IN  UNION { { <<IF test # PageSize THEN 0 ELSE heap_symbol, r[3]>> :
                    test \in AfterRead(r[1], r[2], Uninit) \cup
                             (IF r[1] THEN {} ELSE {PageSize}) } :
                r \in ReadWord(m, heap_symbol, tests) }
\* find_heap_start_heuristic(end_address, offset): the outcomes <<result, mem'>>;
\* test_addr is not initialised and the result of the read is ignored: after
\* a failed read it holds anything, the page size included
find_heap_start_heuristic(m, endA, offset, tests) ==
    LET start == Sub(endA, offset)
        heap_symbol == Sub(start, 3 * PtrSize + UIntSize)
    IN  UNION { { <<IF test # PageSize THEN 0 ELSE start, r[3]>> :
                    test \in AfterRead(r[1], r[2], Uninit) \cup
                             (IF r[1] THEN {} ELSE {PageSize}) } :
                r \in ReadWord(m, heap_symbol, tests) }

\* the loop of do_find over the offsets, from step k on: <<start_address, mem'>>
RECURSIVE HeuristicLoop(_, _, _, _)
HeuristicLoop(m, endA, k, tests) ==
    IF k = HeurSteps
    THEN { <<0, m>> }
    ELSE UNION { IF h[1] # 0 THEN { h } ELSE HeuristicLoop(h[2], endA, k + 1, tests) :
                 h \in find_heap_start_heuristic(m, endA, k * PtrSize, tests) }

\* the symbol lookups of do_find: <<start_address, end_address, mem'>>
SymbolBounds(m, libc, ld, tests) ==
    IF ld # 0 THEN { <<ld, libc, m>> }
    ELSE { <<h[1], libc, h[2]>> : h \in HeuristicLoop(m, libc, 0, tests) }

\* "read the contents of those symbols": both reads ignore their result
DerefBounds(s) ==
    IF s[1] # 0 /\ s[2] # 0
    THEN UNION { UNION { UNION { { <<sv, ev, rs[3]>> :
                                    sv \in AfterRead(rs[1], rs[2], s[1]) } :
                                 rs \in ReadWord(re[3], s[1], BoundWords) } :
                         ev \in AfterRead(re[1], re[2], s[2]) } :
                 re \in ReadWord(s[3], s[2], BoundWords) }
    ELSE { s }

\* the first region named "[heap]", as a sequence of at most one region
RECURSIVE HeapRegion(_)
HeapRegion(regs) ==
    IF regs = <<>> THEN <<>>
    ELSE IF Head(regs).name = "[heap]" THEN <<Head(regs)>>
    ELSE HeapRegion(Tail(regs))

\* "just assume it's the bounds of the [heap] memory region for now"
RegionBounds(s, regs) ==
    IF (s[1] = 0 \/ s[2] = 0) /\ HeapRegion(regs) # <<>>
    THEN <<IF s[1] = 0 THEN HeapRegion(regs)[1].start ELSE s[1],
           IF s[2] = 0 THEN HeapRegion(regs)[1].end ELSE s[2],
           s[3]>>
    ELSE s

\* gives up only when both bounds are missing
BoundsBothMissing(s) == s[1] = 0 /\ s[2] = 0
\* "ok, I give up"
BoundsMissing(s) == s[1] = 0 \/ s[2] = 0

\* entry of collect_blocks(start, end), up to the head of the walk loop;
\* without both bounds it only clears the results
CollectBlocksEntry(s, e, m) ==
    /\ results' = <<>>
    /\ currentChunk' = Uninit
    /\ nextChunk' = Uninit
    /\ walk' = NoWalk
    /\ targets' = <<>>
    /\ pending' = {}
    /\ IF s # 0 /\ e # 0
       THEN /\ start_address' = s
            /\ end_address' = e
            /\ currentChunkAddress' = s
            /\ mem' = m
            /\ pc' = IF s # e THEN "walk" ELSE "detect"
       ELSE /\ start_address' = 0
            /\ end_address' = 0
            /\ currentChunkAddress' = 0
            /\ mem' = EmptyMem
            /\ pc' = "idle"

\* what do_find leaves behind: the message box or not, the symbols it
\* found, what the loop over find_heap_start_heuristic ended with and the
\* bounds do_find ended with
Found(status, libc, ld, sym, b) ==
    [status |-> status, libc |-> libc, ld |-> ld,
     heur |-> IF ld # 0 THEN NotRun ELSE sym[1],
     start |-> b[1], end |-> b[2]]

\* on_btnFind_clicked / do_find, up to the head of the walk loop
DoFind ==
    /\ pc = "idle"
    /\ \E fam \in Envs :
       \E libc \in LibcSyms(fam), ld \in LdSyms(fam), regs \in RegionTables(fam),
          img \in Images(fam) :
         \E sym \in SymbolBounds(EmptyMem, libc, ld, TestWords(fam)) :
           \E d \in DerefBounds(sym) :
             LET b == RegionBounds(d, regs)
             IN  /\ graph' = graph
                 /\ IF BoundsMissing(b)
                    THEN /\ find' = Found("BoundsNotFound", libc, ld, sym, b)
                         /\ UNCHANGED <<pc, results, start_address, end_address,
                                        currentChunkAddress, currentChunk, nextChunk,
                                        mem, targets, pending, walk, env, image>>
                    ELSE /\ find' = Found("found", libc, ld, sym, b)
                         /\ env' = fam
                         /\ image' = img
                         /\ CollectBlocksEntry(b[1], b[2], b[3])

\* ------------------------------------------------------ collect_blocks
\* what the string decoders and the first payload bytes say about a payload
Content(a, u, b) == [ascii |-> a, utf16 |-> u, bytes |-> b]
Payloads ==
    << Content(FALSE, FALSE, <<0, 0>>),
       Content(TRUE, FALSE, <<66, 90>>),
       Content(FALSE, TRUE, <<137, 80, 78, 71>>),
       Content(FALSE, FALSE, <<31, 139>>),
       Content(TRUE, TRUE, <<104, 105>>) >>

\* the payload of the chunk at address a in snapshot img: pattern 0 has no
\* recognisable content, the other patterns vary the content with the address
PayloadContent(img, a) ==
    IF img.content = 0 THEN Payloads[1]
    ELSE Payloads[(((a \div (2 * PtrSize)) * img.content) % Len(Payloads)) + 1]

\* memcmp(bytes, sig, Len(sig)) == 0
StartsWith(bytes, sig) ==
    Len(bytes) >= Len(sig) /\ SubSeq(bytes, 1, Len(sig)) = sig

\* the chain of memcmp of collect_blocks
Magic(bytes) ==
    IF StartsWith(bytes, <<137, 80, 78, 71>>) THEN "PNG IMAGE"
    ELSE IF StartsWith(bytes, <<47, 42, 32, 88, 80, 77, 32, 42, 47>>) THEN "XPM IMAGE"
    ELSE IF StartsWith(bytes, <<66, 90>>) THEN "BZIP FILE"
    ELSE IF StartsWith(bytes, <<31, 157>>) THEN "COMPRESS FILE"
    ELSE IF StartsWith(bytes, <<31, 139>>) THEN "GZIP FILE"
    ELSE ""

\* the data string collect_blocks gives a chunk that is not the top
Classify(c) ==
    IF c.ascii THEN "ASCII"
    ELSE IF c.utf16 THEN "UTF-16"
    ELSE Magic(c.bytes)

\* Result(block, size, type, data).  The other fields record what the
\* iteration saw: hdr and nhdr are the size fields of currentChunk and of
\* nextChunk when the result was made, cword and nword the size words the
\* snapshot has at the chunk and at its successor (Fault: not readable,
\* Unknown: never read), content the payload the classifiers looked at
Result(block, size, type, data, seen) ==
    [block |-> block, size |-> size, type |-> type, tag |-> data,
     ptrs |-> <<>>, points_to |-> <<>>,
     hdr |-> seen.hdr, cword |-> seen.cword, next |-> seen.next,
     nhdr |-> seen.nhdr, nword |-> seen.nword, content |-> seen.content]

Seen(cc, cw, nxt, nc, nw, c) ==
    [hdr |-> cc, cword |-> cw, next |-> nxt, nhdr |-> nc, nword |-> nw, content |-> c]

TopResult(cur, cc, cw, nxt) ==
    Result(cur, chunk_size(cc), "Top", "", Seen(cc, cw, nxt, Uninit, Unknown, <<>>))

\* records the chunk size alone, as the top does
BlockResultChunkSize(cur, cc, cw, nxt, nc, nw, c) ==
    Result(cur, chunk_size(cc),
           IF prev_inuse(nc) THEN "Busy" ELSE "Free",
           Classify(c), Seen(cc, cw, nxt, nc, nw, <<c>>))
BlockResult(cur, cc, cw, nxt, nc, nw, c) ==
    Result(cur, chunk_size(cc) + UIntSize,
           IF prev_inuse(nc) THEN "Busy" ELSE "Free",
           Classify(c), Seen(cc, cw, nxt, nc, nw, <<c>>))

\* model_->addResult(r); a model run keeps at most MaxResults results
addResult(r) ==
    results' = IF Len(results) < MaxResults THEN Append(results, r) ELSE results

\* "avoid self referencing blocks", the advance and the loop condition
LoopTail(cur, nxt, reads) ==
    IF cur = nxt
    THEN /\ currentChunkAddress' = cur
         /\ walk' = [reads |-> reads, stop |-> "self"]
         /\ pc' = "detect"
    ELSE /\ currentChunkAddress' = nxt
         /\ walk' = [reads |-> reads, stop |-> IF nxt # end_address THEN "" ELSE "end"]
         /\ pc' = IF nxt # end_address THEN "walk" ELSE "detect"

\* "is this the last chunk (if so, it's the 'top')"
\* takes every chunk that reaches the end or passes it for the top
IsTopOrBeyond(nxt) == nxt >= end_address
IsTop(nxt) == nxt = end_address

\* only notices a next address above the end
BrokenHeapAbove(nxt) == nxt > end_address
\* "make sure we aren't following a broken heap..."
BrokenHeap(nxt) == nxt > end_address \/ nxt < start_address

\* one iteration of the while loop of collect_blocks
WalkIteration ==
    LET cur == currentChunkAddress
    IN  \E rc \in ReadWord(mem, Mod(cur + PtrSize), SizeWords(env)) :
          \E cc \in AfterRead(rc[1], rc[2], currentChunk) :
            LET nxt == next_chunk(cur, cc)
            IN  /\ currentChunk' = cc
                /\ IF IsTop(nxt)
                   THEN /\ addResult(TopResult(cur, cc, rc[2], nxt))
                        /\ mem' = rc[3]
                        /\ nextChunk' = nextChunk
                        /\ LoopTail(cur, nxt, <<cur>>)
                   ELSE IF BrokenHeap(nxt)
                   THEN /\ results' = results
                        /\ mem' = rc[3]
                        /\ nextChunk' = nextChunk
                        /\ currentChunkAddress' = cur
                        /\ walk' = [reads |-> <<cur>>, stop |-> "broken"]
                        /\ pc' = "detect"
                   ELSE \E rn \in ReadWord(rc[3], Mod(nxt + PtrSize), SizeWords(env)) :
                          \E nc \in AfterRead(rn[1], rn[2], nextChunk) :
                            /\ addResult(BlockResult(cur, cc, rc[2], nxt, nc, rn[2],
                                                     PayloadContent(image, block_start(cur))))
                            /\ mem' = rn[3]
                            /\ nextChunk' = nc
                            /\ LoopTail(cur, nxt, <<cur, nxt>>)

\* the walk as long as the model keeps every result
WalkStep ==
    /\ pc = "walk"
    /\ Len(results) < MaxResults
    /\ WalkIteration
    /\ UNCHANGED <<start_address, end_address, targets, pending, find, env, image, graph>>

\* ------------------------------------------------------ detect_pointers
\* the addresses the loops over a result visit: from block_start(result), in
\* steps of sizeof(edb::address_t), while block_ptr < block_start + size
ScanRange(r) ==
    LET block_ptr == block_start(r.block)
        block_end == Mod(block_ptr + r.size)
    IN  { a \in WordAddrs : block_ptr <= a /\ a < block_end }

\* targets after the inserts for results[i..]: an insert replaces the value
\* an earlier result gave the key
RECURSIVE InsertTargets(_, _, _)
InsertTargets(t, rs, i) ==
    IF i > Len(rs) THEN t
    ELSE InsertTargets([a \in ScanRange(rs[i]) |-> rs[i].block] @@ t, rs, i + 1)

\* a payload word of the snapshot: a word the walk sampled, or the word the
\* image has at that address
PayloadWord(img, a) ==
    IF img.words = 0 THEN 0
    ELSE IF img.words = 1 THEN 2 * PtrSize + 8
    ELSE Mod(a + 8)

ScanWord(m, img, a) == IF m[a] # Unknown THEN m[a] ELSE PayloadWord(img, a)

\* records the matched word instead of the chunk that owns it
EdgeTargetKey(t, w) == w
\* points_to.push_back(it.value())
EdgeTarget(t, w) == t[w]

\* the while loop of process_potential_pointer over the addresses as, in
\* increasing order: a word that reads and is a key of targets is recorded
RECURSIVE ScanPointers(_, _, _, _, _)
ScanPointers(t, r, as, m, img) ==
    IF as = {} THEN r
    ELSE LET a == CHOOSE x \in as : \A y \in as : x <= y
             w == ScanWord(m, img, a)
             hit == w # Fault /\ w \in DOMAIN t
         IN  ScanPointers(t,
                 IF hit
                 THEN [r EXCEPT !.ptrs = Append(@, w),
                                !.points_to = Append(@, EdgeTarget(t, w))]
                 ELSE r,
                 as \ {a}, m, img)

\* result.data is the tag followed by the pointer annotations
DataIsEmpty(r) == r.tag = "" /\ r.ptrs = <<>>

\* scans every result, tagged or not
process_every_result(t, r, m, img) == ScanPointers(t, r, ScanRange(r), m, img)
process_potential_pointer(t, r, m, img) ==
    IF DataIsEmpty(r) THEN ScanPointers(t, r, ScanRange(r), m, img) ELSE r

\* collect_blocks and do_find return to the event loop: their locals and the
\* snapshot they read are gone
ScanReturns ==
    /\ pc' = "idle"
    /\ start_address' = 0
    /\ end_address' = 0
    /\ currentChunkAddress' = 0
    /\ currentChunk' = Uninit
    /\ nextChunk' = Uninit
    /\ mem' = EmptyMem
    /\ targets' = <<>>
    /\ walk' = NoWalk
    /\ env' = "bounds"
    /\ image' = Image(0, 0)

ScanGoesOn ==
    /\ pc' = "map"
    /\ UNCHANGED <<start_address, end_address, currentChunkAddress, currentChunk,
                   nextChunk, mem, walk, env, image>>

\* detect_pointers up to the call of blockingMap
DetectPointers ==
    /\ pc = "detect"
    /\ pending' = 1..Len(results)
    /\ IF results = <<>>
       THEN ScanReturns
       ELSE ScanGoesOn /\ targets' = InsertTargets(<<>>, results, 1)
    /\ UNCHANGED <<results, find, graph>>

\* a worker that takes the words of its own chunk out of the shared hash
ProcessPointerSharedTargets(i) ==
    /\ pc = "map"
    /\ i \in pending
    /\ results' = [results EXCEPT ![i] = process_potential_pointer(targets, @, mem, image)]
    /\ pending' = pending \ {i}
    /\ IF pending' = {}
       THEN ScanReturns
       ELSE ScanGoesOn
            /\ targets' = [a \in DOMAIN targets \ ScanRange(results[i]) |-> targets[a]]
    /\ UNCHANGED <<find, graph>>
\* one worker of blockingMap processes results[i]; the handler returns when
\* the last one is done
ProcessPointer(i) ==
    /\ pc = "map"
    /\ i \in pending
    /\ results' = [results EXCEPT ![i] = process_potential_pointer(targets, @, mem, image)]
    /\ pending' = pending \ {i}
    /\ IF pending' = {}
       THEN ScanReturns
       ELSE ScanGoesOn /\ targets' = targets
    /\ UNCHANGED <<find, graph>>

\* ------------------------------------------------------------ showEvent
ShowEvent ==
    /\ pc = "idle"
    /\ results' = <<>>
    /\ UNCHANGED <<pc, start_address, end_address, currentChunkAddress, currentChunk,
                   nextChunk, mem, targets, pending, find, env, image, walk, graph>>

\* -------------------------------------------------- on_btnGraph_clicked
\* indexes into results stand for the Result pointers; 0 is the null pointer
MaxIndex(S) == CHOOSE x \in S : \A y \in S : y <= x
MinIndex(S) == CHOOSE x \in S : \A y \in S : x <= y

\* result_map: the last result inserted under an address stays
ResultMap(rs) ==
    [a \in {rs[i].block : i \in 1..Len(rs)} |->
        MaxIndex({i \in 1..Len(rs) : rs[i].block = a})]

\* result_map[pointer]: an address without a result yields the null pointer
Lookup(rmap, pointer) == IF pointer \in DOMAIN rmap THEN rmap[pointer] ELSE 0

\* seeds the search with every row
AllRowsStack(sel) == [i \in 1..Len(results) |-> i]
\* the selected rows, pushed in row order
RECURSIVE SeedStack(_)
SeedStack(sel) ==
    IF sel = {} THEN <<>>
    ELSE <<MinIndex(sel)>> \o SeedStack(sel \ {MinIndex(sel)})

\* the Q_FOREACH over result->points_to from entry k on: <<stack, seen>>
RECURSIVE PushTargets(_, _, _, _, _)
PushTargets(rmap, stack, seen, pts, k) ==
    IF k > Len(pts) THEN <<stack, seen>>
    ELSE LET next_result == Lookup(rmap, pts[k])
         IN  IF next_result \in seen
             THEN PushTargets(rmap, stack, seen, pts, k + 1)
             ELSE PushTargets(rmap, Append(stack, next_result),
                              seen \cup {next_result}, pts, k + 1)

\* the while loop over result_stack: the keys of nodes, and whether a null
\* Result was popped
RECURSIVE Traverse(_, _, _, _, _)
Traverse(rs, rmap, stack, seen, nodes) ==
    IF stack = <<>> THEN [nodes |-> nodes, null |-> FALSE]
    ELSE LET result == stack[Len(stack)]
             rest == SubSeq(stack, 1, Len(stack) - 1)
         IN  IF result = 0 THEN [nodes |-> nodes, null |-> TRUE]
             ELSE LET p == PushTargets(rmap, rest, seen, rs[result].points_to, 1)
                  IN  Traverse(rs, rmap, p[1], p[2], nodes \cup {rs[result].block})

\* an edge loop that does not test whether the source has a node
RECURSIVE EdgesFromEveryResult(_, _, _, _)
EdgesFromEveryResult(rs, rmap, nodes, as) ==
    IF as = {} THEN <<>>
    ELSE LET a == MinIndex(as)
             pts == rs[rmap[a]].points_to
         IN  [k \in 1..Len(pts) |-> <<a, pts[k]>>]
             \o EdgesFromEveryResult(rs, rmap, nodes, as \ {a})
\* the edge loop: one agedge per entry of points_to of every result of
\* result_map that has a node, in the order of the addresses
RECURSIVE EdgesFrom(_, _, _, _)
EdgesFrom(rs, rmap, nodes, as) ==
    IF as = {} THEN <<>>
    ELSE LET a == MinIndex(as)
             pts == rs[rmap[a]].points_to
         IN  (IF a \in nodes THEN [k \in 1..Len(pts) |-> <<a, pts[k]>>] ELSE <<>>)
             \o EdgesFrom(rs, rmap, nodes, as \ {a})

\* lets one node more through
TooManyNodesOffByOne(nodes) == Cardinality(nodes) > MaxGraphNodes + 1
TooManyNodes(nodes) == Cardinality(nodes) > MaxGraphNodes

\* the graph the handler ends with for the selected rows sel
BuildGraph(rs, sel) ==
    LET rmap == ResultMap(rs)
        t == Traverse(rs, rmap, SeedStack(sel), sel, {})
        edges == EdgesFrom(rs, rmap, t.nodes, DOMAIN rmap)
    IN  IF t.null
        THEN [status |-> "crash", nodes |-> t.nodes, edges |-> <<>>, seeds |-> sel]
        ELSE IF TooManyNodes(t.nodes)
        THEN [status |-> "TooLarge", nodes |-> t.nodes, edges |-> <<>>, seeds |-> sel]
        ELSE IF \E k \in 1..Len(edges) : edges[k][2] \notin t.nodes
        THEN [status |-> "crash", nodes |-> t.nodes, edges |-> edges, seeds |-> sel]
        ELSE [status |-> "shown", nodes |-> t.nodes, edges |-> edges, seeds |-> sel]

\* the handler, up to graph->show()
GraphClick ==
    /\ pc = "idle"
    /\ \E sel \in SUBSET (1..Len(results)) : graph' = BuildGraph(results, sel)
    /\ pc' = "graph"
    /\ UNCHANGED <<results, start_address, end_address, currentChunkAddress,
                   currentChunk, nextChunk, mem, targets, pending, find, env, image,
                   walk>>

\* the user closes the graph window (or the message of the crash) before the
\* next command
CloseGraph ==
    /\ pc = "graph"
    /\ pc' = "idle"
    /\ graph' = NoGraph
    /\ UNCHANGED <<results, start_address, end_address, currentChunkAddress,
                   currentChunk, nextChunk, mem, targets, pending, find, env, image,
                   walk>>

Next ==
    \/ DoFind
    \/ WalkStep
    \/ DetectPointers
    \/ \E i \in 1..MaxResults : ProcessPointer(i)
    \/ ShowEvent
    \/ GraphClick
    \/ CloseGraph
Spec == Init /\ [][Next]_vars

\* The walk with no limit on its iterations: once the model holds MaxResults
\* results the later ones are dropped, the loop itself goes on as in the code.
WalkLoop ==
    /\ pc = "walk"
    /\ WalkIteration
    /\ UNCHANGED <<start_address, end_address, targets, pending, find, env, image, graph>>

LoopNext ==
    \/ DoFind
    \/ WalkLoop

\* the handler is not interrupted: an iteration that can run does run
LoopSpec == Init /\ [][LoopNext]_vars /\ WF_vars(WalkLoop)

\* ================================================================ claims
Scanning == pc \in {"walk", "detect", "map"}
Rows == 1..Len(results)
\* the header size field with the three low flag bits cleared
FlagsCleared(w) == (w \div 8) * 8
HasTop == \E i \in Rows : results[i].type = "Top"
\* the PointerIndex of the chunks of the scan
PointerIndex == InsertTargets(<<>>, results, 1)
PayloadStarts == { block_start(results[i].block) : i \in Rows }

\* C1: for every pair of bounds and every content of the memory the walk
\* loop of collect_blocks terminates: a walk that has started is over after
\* finitely many iterations.
C1_WalkTerminates == (pc = "walk") ~> (pc # "walk")

\* C2: in the chunk list of a walk every chunk that is not the top is
\* followed by the chunk at its address plus its header size field with the
\* flag bits cleared (modulo the address width).
C2_NextChunkAdjacent ==
    \A i \in Rows :
        (i < Len(results) /\ results[i].type # "Top")
            => results[i + 1].block
                 = Mod(results[i].block + FlagsCleared(results[i].hdr))
\* a chunk with flag bits set in its header is followed by another chunk
C2_Witness ==
    \E i \in Rows :
        /\ i < Len(results)
        /\ results[i].type # "Top"
        /\ results[i].hdr % 8 > 1
        /\ results[i + 1].block # results[i].block + results[i].hdr

\* C3: when the read of a chunk header (of the current chunk or of the
\* following one) fails, the walk stops at once: no result is made from a
\* header that could not be read.
C3_FailedReadStopsWalk ==
    \A i \in Rows : results[i].cword # Fault /\ results[i].nword # Fault

\* C4 (as claimed): every entry of a chunk's points_to is the payload-start
\* address of a chunk of the scan, and a key of the PointerIndex.
C4_TargetsArePayloadStarts ==
    \A i \in Rows : \A k \in 1..Len(results[i].points_to) :
        results[i].points_to[k] \in PayloadStarts \cap DOMAIN PointerIndex
\* C4 (amended): every entry of a chunk's points_to is the address of a
\* chunk of the scan (the address of its header, not of its payload): the
\* chunk the PointerIndex gives for the matched word, which is a key of it.
C4_TargetsAreOwningChunks ==
    \A i \in Rows :
        /\ Len(results[i].ptrs) = Len(results[i].points_to)
        /\ \A k \in 1..Len(results[i].points_to) :
             /\ results[i].ptrs[k] \in DOMAIN PointerIndex
             /\ results[i].points_to[k] = PointerIndex[results[i].ptrs[k]]
             /\ \E j \in Rows : results[j].block = results[i].points_to[k]
\* an edge was recorded whose target is no payload start
C4_Witness ==
    \E i \in Rows :
        /\ results[i].points_to # <<>>
        /\ results[i].points_to[1] \notin PayloadStarts

\* the edges the scan recorded, by chunk address
RecordedEdges ==
    UNION { { <<results[i].block, results[i].points_to[k]>> :
                k \in 1..Len(results[i].points_to) } : i \in Rows }

\* the chunk addresses reachable from S over zero or more recorded edges
RECURSIVE Reach(_)
Reach(S) ==
    LET T == S \cup { e[2] : e \in { d \in RecordedEdges : d[1] \in S } }
    IN  IF T = S THEN S ELSE Reach(T)

\* C5: every node the graph builder creates is a chunk that is reachable
\* from a seed chunk over zero or more recorded outgoing edges.
C5_NodesReachableFromSeeds ==
    graph.status # "none"
        => graph.nodes \subseteq Reach({ results[i].block : i \in graph.seeds })
\* a graph with a node that is no seed, while another chunk stays out of it
C5_Witness ==
    /\ graph.status = "shown"
    /\ \E n \in graph.nodes : n \notin { results[i].block : i \in graph.seeds }
    /\ \E i \in Rows : results[i].block \notin graph.nodes

\* C6: a graph is shown only with at most MaxGraphNodes (3000 in the source)
\* nodes; with more nodes the request fails without an edge and without a
\* graph, and in both cases the results of the scan stay as they were.
C6_GraphCap ==
    [][ pc' = "graph" =>
          /\ results' = results
          /\ graph'.status = "shown" => Cardinality(graph'.nodes) <= MaxGraphNodes
          /\ Cardinality(graph'.nodes) > MaxGraphNodes
               => graph'.status = "TooLarge" /\ graph'.edges = <<>> ]_vars
\* a request that visited more nodes than the cap, over recorded edges
C6_Witness ==
    /\ graph.status = "TooLarge"
    /\ Cardinality(graph.nodes) > Cardinality(graph.seeds)

PointerAnnotated(r) == r.ptrs # <<>> \/ r.points_to # <<>>
MagicTags == {"PNG IMAGE", "XPM IMAGE", "BZIP FILE", "COMPRESS FILE", "GZIP FILE"}

\* C7: no chunk carries both a content tag and a pointer annotation or an
\* outgoing edge, and the tag follows the precedence ASCII, then UTF-16, then
\* magic signature.
C7_TagExcludesPointers ==
    \A i \in Rows :
        LET r == results[i]
        IN  /\ r.tag # "" => ~PointerAnnotated(r)
            /\ r.content = <<>> => r.tag = ""
            /\ r.content # <<>> =>
                 /\ r.content[1].ascii => r.tag = "ASCII"
                 /\ (~r.content[1].ascii /\ r.content[1].utf16) => r.tag = "UTF-16"
                 /\ (~r.content[1].ascii /\ ~r.content[1].utf16)
                      => /\ r.tag \in MagicTags \cup {""}
                         /\ r.tag = "PNG IMAGE" <=> StartsWith(r.content[1].bytes, <<137, 80, 78, 71>>)
                         /\ r.tag = "GZIP FILE" <=> StartsWith(r.content[1].bytes, <<31, 139>>)
                         /\ r.tag = "" => r.content[1].bytes = <<0, 0>>
\* a complete scan with a chunk that is ASCII and UTF-16 at once and tagged
\* ASCII, next to a chunk with outgoing edges
C7_Witness ==
    /\ pc = "idle"
    /\ \E i \in Rows : /\ results[i].content # <<>>
                       /\ results[i].content[1].ascii
                       /\ results[i].content[1].utf16
                       /\ results[i].tag = "ASCII"
    /\ \E i \in Rows : results[i].points_to # <<>>

\* C8: every chunk that is not the top is labelled Busy if and only if the
\* PREV_INUSE bit of the size field of the header at its next-chunk address
\* is set, and Free otherwise.
C8_BusyIffNextPrevInuse ==
    \A i \in Rows :
        results[i].type # "Top"
            => /\ results[i].type \in {"Busy", "Free"}
               /\ results[i].type = "Busy"
                    <=> (results[i].nword # Fault /\ results[i].nword % 2 = 1)

\* C9: a chunk is the top if and only if its computed next address is the
\* end of the heap; a walk has at most one top, it is its last result, and
\* the walk reads no header after it.
C9_TopIsTerminal ==
    /\ \A i \in Rows : results[i].type = "Top" => i = Len(results)
    /\ Scanning => \A i \in Rows :
                     results[i].type = "Top" <=> results[i].next = end_address
    /\ (Scanning /\ HasTop) => pc # "walk"
    /\ (pc = "detect" /\ HasTop)
         => walk.reads = <<results[Len(results)].block>> /\ walk.stop = "end"
    /\ (pc = "detect" /\ walk.stop = "end") => HasTop
\* a walk of several chunks that ended with the top
C9_Witness ==
    /\ pc = "detect"
    /\ Len(results) >= 2
    /\ results[Len(results)].type = "Top"

\* C10: when the start or the end bound is still missing after the symbol
\* lookup, the heuristic and the region fallback, do_find reports the failure
\* and starts no walk: no result is added or changed.
C10_NoWalkWithoutBounds ==
    [][ (find'.status # "none" /\ (find'.start = 0 \/ find'.end = 0))
          => /\ find'.status = "BoundsNotFound"
             /\ pc' \in {"idle", "graph"}
             /\ results' = results \/ results' = <<>> ]_vars
\* the attempt failed with one bound found, the results of the scan before
\* it are still there
C10_Witness ==
    /\ find.status = "BoundsNotFound"
    /\ find.start = 0
    /\ find.end # 0
    /\ results # <<>>

\* a result as the walk made it, before the pointer detection pass
BeforePass(r) == [r EXCEPT !.ptrs = <<>>, !.points_to = <<>>]
\* a result after its worker is done: a function of the result the walk made,
\* of the PointerIndex and of the snapshot only
AfterPass(r) ==
    IF r.tag = ""
    THEN ScanPointers(targets, BeforePass(r), ScanRange(r), mem, image)
    ELSE BeforePass(r)

\* C11: during the pointer detection pass a worker writes only the
\* annotation and the edges of the result it was given, never the
\* PointerIndex and never another result; whatever the order of the workers,
\* a processed result is the same function of the walk's result and the
\* index, so the chunk set after the pass does not depend on the order.
C11_WorkersAreIndependent ==
    /\ [](pc = "map" =>
            \A i \in Rows :
                results[i] = IF i \in pending THEN BeforePass(results[i])
                             ELSE AfterPass(results[i]))
    /\ [][ pc = "map" =>
            /\ Len(results') = Len(results)
            /\ \E i \in pending :
                 /\ \A j \in Rows \ {i} : results'[j] = results[j]
                 /\ BeforePass(results'[i]) = BeforePass(results[i])
            /\ pc' = "map" => targets' = targets ]_vars
\* the workers ran out of order: a later result already has its edges while
\* an earlier one, which will get edges too, is still waiting
C11_Witness ==
    /\ pc = "map"
    /\ \E i \in Rows \ pending : \E j \in pending :
         /\ j < i
         /\ results[i].points_to # <<>>
         /\ AfterPass(results[j]).points_to # <<>>

\* C12: every scan attempt starts from a cleared chunk set: a step of
\* do_find (the only handler that changes what the last attempt found)
\* leaves no result of an earlier scan behind, whether it goes on to walk
\* the heap or ends with the message that the bounds were not found.
C12_ScanStartsCleared ==
    [][ find' # find => results' = <<>> ]_vars

\* the walk stops on a broken heap or on a self-referencing chunk
WalkAborts == pc = "walk" /\ pc' = "detect" /\ walk'.stop \in {"broken", "self"}

\* C13 (as claimed): when the walk computes a next address outside the
\* bounds or equal to the current address, it stops without reading a
\* further header and leaves the results as they were.
C13_AbortReadsNothingMore ==
    [][ WalkAborts
          => /\ walk'.reads = <<currentChunkAddress>>
             /\ results' = results ]_vars
\* C13 (amended): a next address outside the bounds stops the walk before
\* any further read and leaves the results as they were; a next address
\* equal to the current one stops the walk only after the header at that
\* address was read once more as the next chunk and the self-referencing
\* chunk itself was added as a Busy or Free result; no result has a next
\* address outside the bounds; in both cases the results made before are
\* kept and all results are handed to the pointer detection.
C13_AbortKeepsEarlierChunks ==
    /\ [](Scanning => \A i \in Rows :
            start_address <= results[i].next /\ results[i].next <= end_address)
    /\ [][ /\ (WalkAborts /\ walk'.stop = "broken")
                => /\ walk'.reads = <<currentChunkAddress>>
                   /\ results' = results
                   /\ BrokenHeap(next_chunk(currentChunkAddress, currentChunk'))
           /\ (WalkAborts /\ walk'.stop = "self")
                => /\ walk'.reads = <<currentChunkAddress, currentChunkAddress>>
                   /\ Len(results') = Len(results) + 1
                   /\ SubSeq(results', 1, Len(results)) = results
                   /\ results'[Len(results')].block = currentChunkAddress
                   /\ results'[Len(results')].next = currentChunkAddress
                   /\ results'[Len(results')].type \in {"Busy", "Free"}
                   /\ results'[Len(results')].size = UIntSize
           /\ (pc = "detect" /\ results # <<>>)
                => pc' = "map" /\ pending' = Rows /\ results' = results ]_vars
\* a walk that stopped on a self-referencing chunk after other chunks
C13_Witness ==
    /\ pc = "detect"
    /\ walk.stop = "self"
    /\ Len(results) >= 2
    /\ results[Len(results)].next = results[Len(results)].block

\* C14: whenever do_find has found both bounds and collect_blocks runs, the
\* bounds it was handed satisfy start < end.
C14_StartBelowEnd == Scanning => start_address < end_address

\* C15: whenever <libc>::__curbrk was found, the end bound of the walk is the
\* word stored at the symbol's address, and whenever <ld>::__curbrk was
\* found, the start bound is the word stored at that symbol's address,
\* whether or not the other symbol was found.
C15_BoundsAreDereferenced ==
    Scanning =>
        /\ find.libc # 0 => end_address = mem[find.libc]
        /\ find.ld # 0 => start_address = mem[find.ld]

\* C16: every key of the PointerIndex built from the chunks of a walk is the
\* address of a payload word of the chunk it is mapped to: for a key k mapped
\* to chunk c, c.address + 2 x pointer size <= k < c.address + chunkSize(c),
\* so that no header word and no payload word of another chunk is mapped to c.
C16_KeysAreOwnPayloadWords ==
    \A k \in DOMAIN PointerIndex :
        \E i \in Rows :
            /\ results[i].block = PointerIndex[k]
            /\ results[i].block + 2 * PtrSize <= k
            /\ k < results[i].block + chunk_size(results[i].hdr)

\* the edges of the graph as a set of ordered pairs
EdgePairs == { graph.edges[k] : k \in 1..Len(graph.edges) }
\* the relations recorded between two visited chunks
VisitedRelations ==
    { e \in RecordedEdges : e[1] \in graph.nodes /\ e[2] \in graph.nodes }
\* how many entries of the sequence s equal x
Occurrences(s, x) == Cardinality({ k \in 1..Len(s) : s[k] = x })

LastRow(a) == MaxIndex({ i \in Rows : results[i].block = a })
\* the walk emitted one chunk address more than once
DuplicateBlocks == \E i, j \in Rows : i < j /\ results[i].block = results[j].block
HeuristicRan == Scanning /\ find.ld = 0
\* the candidate of the k-th offset and the address of the word tested for it
Candidate(k) == Sub(find.libc, k * PtrSize)
TestedWord(k) == Sub(Candidate(k), 3 * PtrSize + UIntSize)
Offsets == 0..(HeurSteps - 1)

\* C18 (as claimed): the start the heuristic accepts is end - offset - 4 x
\* pointer size for the first offset for which the word immediately before
\* that candidate equals the page size; without such an offset it yields no
\* start.  Stated for the scans in which every tested word could be read.
C18_CandidateBelowEnd ==
    (HeuristicRan /\ \A k \in Offsets : mem[TestedWord(k)] # Fault) =>
        /\ find.heur # 0 =>
             \E k \in Offsets :
                /\ find.heur = Sub(find.libc, k * PtrSize + 4 * PtrSize)
                /\ mem[Sub(find.heur, PtrSize)] = PageSize
        /\ find.heur = 0 =>
             \A k \in Offsets :
                mem[Sub(Sub(find.libc, k * PtrSize + 4 * PtrSize), PtrSize)] # PageSize
\* C18 (amended): the offsets are tried in increasing order; the candidate of
\* an offset is end - offset and the word tested is the one 3 x pointer size
\* + sizeof(unsigned int) below the candidate; the start the heuristic yields
\* is the candidate of the first offset whose candidate is not 0 and whose
\* tested word equals the page size or cannot be read (the comparison then
\* uses an uninitialised word); if it yields no start, no tested word of a
\* candidate other than 0 equals the page size.
C18_FirstMatchingCandidate ==
    HeuristicRan =>
        /\ find.heur # 0 =>
             \E k \in Offsets :
                /\ find.heur = Candidate(k)
                /\ mem[TestedWord(k)] \in {PageSize, Fault}
                /\ \A j \in 0..(k - 1) :
                     Candidate(j) = 0 \/ mem[TestedWord(j)] \notin {PageSize, Unknown}
        /\ find.heur = 0 =>
             \A k \in Offsets :
                Candidate(k) = 0 \/ mem[TestedWord(k)] \notin {PageSize, Unknown}
\* the heuristic turned down the first offset and accepted a later one
C18_Witness ==
    /\ HeuristicRan
    /\ find.libc # 0
    /\ find.heur # 0
    /\ find.heur # Candidate(0)
    /\ mem[TestedWord(0)] # PageSize

\* C19 (as claimed): the recorded extents of the chunks of a walk do not
\* overlap: a chunk's address plus its recorded size is at most the address
\* of the chunk after it, and the recorded extent of the top ends at the end
\* of the heap.
C19_ExtentsDoNotOverlap ==
    \A i \in Rows :
        /\ (i < Len(results) /\ results[i].type # "Top")
             => results[i].block + results[i].size <= results[i + 1].block
        /\ (Scanning /\ results[i].type = "Top")
             => Mod(results[i].block + results[i].size) = end_address
\* C19 (amended): the recorded size of a Busy or Free chunk is its chunk size
\* plus sizeof(unsigned int), so its recorded extent ends one unsigned int
\* inside the chunk after it (addresses modulo the address width); the
\* recorded size of the top is its chunk size and its extent ends at the end
\* of the heap.
C19_ExtentsOverlapByOneWord ==
    \A i \in Rows :
        /\ results[i].type # "Top"
             => results[i].size = FlagsCleared(results[i].hdr) + UIntSize
        /\ (i < Len(results) /\ results[i].type # "Top")
             => Mod(results[i].block + results[i].size)
                  = Mod(results[i + 1].block + UIntSize)
        /\ results[i].type = "Top"
             => results[i].size = FlagsCleared(results[i].hdr)
        /\ (Scanning /\ results[i].type = "Top")
             => Mod(results[i].block + results[i].size) = end_address
\* a walk of a Busy chunk, another chunk and the top
C19_Witness ==
    /\ Scanning
    /\ Len(results) >= 3
    /\ results[1].type = "Busy"
    /\ results[Len(results)].type = "Top"
    /\ results[1].block + results[1].size > results[2].block

====
